---- MODULE Spec2Model ----
(***************************************************************************)
(* Verification model of the CVRP multi-objective optimiser:               *)
(*   src/src/problem/split.py       tour <-> routes codec                  *)
(*   src/src/operators/ox.py        order crossover, swap mutation         *)
(*   src/src/problem/solution.py    CVRPSolution and its two objectives    *)
(*   src/src/algorithms/utils.py    dominates, fast_non_dominated_sort     *)
(*   src/src/algorithms/nsga2.py    NSGA2 (rank / crowding engine)         *)
(*   src/src/algorithms/spea2.py    SPEA2 (strength / density engine)      *)
(*                                                                         *)
(* Python objects are modelled as a heap: a sequence of records, an object *)
(* being identified with its index; Python lists of objects are sequences  *)
(* of such indices, so that a field written through one list is seen       *)
(* through every other list holding the same object.                       *)
(***************************************************************************)
EXTENDS Integers, Sequences, FiniteSets, TLC

VARIABLES
    pc,          \* position of the program being modelled
    instance,    \* the CVRPInstance
    heap,        \* the CVRPSolution objects, by identity
    population,  \* list of object ids
    offspring,   \* list of object ids (create_offspring's local list)
    fronts,      \* list of lists of object ids
    gen,         \* generation counter of run()
    unvisited,   \* initialize_population: customers not yet routed
    routes,      \* list of routes under construction / codec output
    current,     \* initialize_population: the open route
    load,        \* initialize_population: load of the open route
    tour,        \* codec / operator input tour (parent1)
    parent2,     \* operator input: second parent
    child,       \* operator output tour
    order1,      \* crowding distance: the front as sorted by total_distance
    result,      \* what run() returned
    err,         \* the exception that ended the program, or "none"
    archive,     \* SPEA2: the archive, a list of object ids
    twin         \* SPEA2: a second execution fed the same random draws

vars == <<pc, instance, heap, population, offspring, fronts, gen, unvisited,
          routes, current, load, tour, parent2, child, order1, result, err,
          archive, twin>>

----------------------------------------------------------------------------
(* Bounds of the model                                                     *)

MaxLen == 4          \* longest tour given to the codec and the operators
MaxDemand == 2       \* largest customer demand of a drawn instance
MaxCapacity == 3     \* largest vehicle capacity of a drawn instance
MaxFront == 4        \* largest list given to the ranking utilities
MaxObj == 1          \* objective values of drawn solutions are 0..MaxObj
PopSize == 2         \* pop_size of the modelled engine runs
Generations == 1     \* generations of the modelled engine runs
MaxRoutes == 3       \* routes the greedy construction may close
MaxEntries == 3      \* longest route given to the constructor
MaxDrawnRoutes == 2  \* most routes given to the constructor

----------------------------------------------------------------------------
(* Generic helpers                                                         *)

Range(s) == {s[i] : i \in DOMAIN s}

RECURSIVE GCD(_, _)
GCD(a, b) == IF b = 0 THEN a ELSE GCD(b, a % b)

\* Exact square root; the modelled instances have integral distances only.
Sqrt(n) == CHOOSE r \in 0..n : r * r = n

\* A function on 1..n as the explicit list of its values (the same value;
\* TLC then holds the elements instead of the rule that computes them).
AsList(f) == SubSeq(f, 1, Len(f))

\* All sequences over S that are permutations of S.
TourPermutations(S) ==
    {p \in [1..Cardinality(S) -> S] : \A x \in S : \E i \in DOMAIN p : p[i] = x}

\* list.sort(key=...): stable; lt[<<x, y>>] means key(x) < key(y).
RECURSIVE InsertSorted(_, _, _)
InsertSorted(sorted, x, lt) ==
    IF sorted = <<>> THEN <<x>>
    ELSE IF lt[<<x, Head(sorted)>>] THEN <<x>> \o sorted
    ELSE <<Head(sorted)>> \o InsertSorted(Tail(sorted), x, lt)

RECURSIVE StableSort(_, _)
StableSort(s, lt) ==
    IF s = <<>> THEN <<>>
    ELSE InsertSorted(StableSort(SubSeq(s, 1, Len(s) - 1), lt), s[Len(s)], lt)

----------------------------------------------------------------------------
(* The instance (src/src/problem/cvrp_reader.py)                           *)

\* Customers are nodes 2..dimension; node 1 of the file is the depot, which
\* routes denote by the marker 0.
CustomerIds(n) == 2..(n + 1)

\* Coordinates with integral pairwise Euclidean distances: with the depot,
\* the corners of a 3 by 4 rectangle.  Further customers, which only the
\* codec sees, have no use for coordinates.
Coords(c) ==
    CASE c = 2 -> <<3, 0>>
      [] c = 3 -> <<0, 4>>
      [] c = 4 -> <<3, 4>>
      [] OTHER -> <<0, 0>>

CVRPInstance(n, demand, capacity) ==
    [capacity  |-> capacity,
     depot     |-> <<0, 0>>,
     customers |-> [c \in CustomerIds(n) |->
                        [coords |-> Coords(c), demand |-> demand[c]]]]

----------------------------------------------------------------------------
(* Tour <-> route codec (src/src/problem/split.py)                         *)

\* Variant: the customer that does not fit is not carried into the new route.
RECURSIVE SplitLoopDropsSeed(_, _, _, _, _)
SplitLoopDropsSeed(rest, inst, rts, current_route, current_load) ==
    IF rest = <<>>
    THEN Append(rts, Append(current_route, 0))
    ELSE LET customer == Head(rest)
             demand   == inst.customers[customer].demand
         IN  IF current_load + demand <= inst.capacity
             THEN SplitLoopDropsSeed(Tail(rest), inst, rts,
                                     Append(current_route, customer),
                                     current_load + demand)
             ELSE SplitLoopDropsSeed(Tail(rest), inst,
                                     Append(rts, Append(current_route, 0)),
                                     <<0>>, 0)

\* Variant: the load of a new route forgets the customer that opened it.
RECURSIVE SplitLoopLoadReset(_, _, _, _, _)
SplitLoopLoadReset(rest, inst, rts, current_route, current_load) ==
    IF rest = <<>>
    THEN Append(rts, Append(current_route, 0))
    ELSE LET customer == Head(rest)
             demand   == inst.customers[customer].demand
         IN  IF current_load + demand <= inst.capacity
             THEN SplitLoopLoadReset(Tail(rest), inst, rts,
                                     Append(current_route, customer),
                                     current_load + demand)
             ELSE SplitLoopLoadReset(Tail(rest), inst,
                                     Append(rts, Append(current_route, 0)),
                                     <<0, customer>>, 0)

RECURSIVE SplitLoop(_, _, _, _, _)
SplitLoop(rest, inst, rts, current_route, current_load) ==
    IF rest = <<>>
    THEN Append(rts, Append(current_route, 0))
    ELSE LET customer == Head(rest)
             demand   == inst.customers[customer].demand
         IN  IF current_load + demand <= inst.capacity
             THEN SplitLoop(Tail(rest), inst, rts,
                            Append(current_route, customer),
                            current_load + demand)
             ELSE SplitLoop(Tail(rest), inst,
                            Append(rts, Append(current_route, 0)),
                            <<0, customer>>, demand)

split_tour_to_routes(t, inst) == SplitLoop(t, inst, <<>>, <<0>>, 0)

tour_to_routes(t, inst) == split_tour_to_routes(t, inst)

RECURSIVE FlattenRoute(_)
FlattenRoute(route) ==
    IF route = <<>> THEN <<>>
    ELSE IF Head(route) # 0
         THEN <<Head(route)>> \o FlattenRoute(Tail(route))
         ELSE FlattenRoute(Tail(route))

RECURSIVE routes_to_tour(_)
routes_to_tour(rts) ==
    IF rts = <<>> THEN <<>>
    ELSE FlattenRoute(Head(rts)) \o routes_to_tour(Tail(rts))

----------------------------------------------------------------------------
(* Genetic operators (src/src/operators/ox.py)                             *)

None == 0   \* Python's None in a child under construction (ids are >= 2)

\* Variant: the fill list does not skip the genes of the copied segment.
FillGenesKeepsAll(p2, ch) == p2

\* fill = [gene for gene in parent2 if gene not in child]
RECURSIVE FillGenes(_, _)
FillGenes(p2, ch) ==
    IF p2 = <<>> THEN <<>>
    ELSE IF Head(p2) \notin Range(ch)
         THEN <<Head(p2)>> \o FillGenes(Tail(p2), ch)
         ELSE FillGenes(Tail(p2), ch)

\* for i in range(n): if child[i] is None: child[i] = fill[fill_index] ...
\* (i is 1-based here.)  fill[fill_index] past the end is an IndexError,
\* modelled by leaving None in place.
RECURSIVE FillLoop(_, _, _, _)
FillLoop(ch, fill, fill_index, i) ==
    IF i > Len(ch) THEN ch
    ELSE IF ch[i] = None
         THEN IF fill_index <= Len(fill)
              THEN FillLoop([ch EXCEPT ![i] = fill[fill_index]], fill,
                            fill_index + 1, i + 1)
              ELSE ch
         ELSE FillLoop(ch, fill, fill_index, i + 1)

\* a, b: the sorted result of random.sample(range(n), 2), 0-based, a < b.
ox_crossover(parent1_, parent2_, a, b) ==
    LET n    == Len(parent1_)
        seg  == [i \in 1..n |->
                    IF a + 1 <= i /\ i <= b + 1 THEN parent1_[i] ELSE None]
        fill == FillGenes(parent2_, seg)
    IN  FillLoop(seg, fill, 1, 1)

\* Variant: position i is overwritten, position j is left as it was.
mutate_swapOverwrites(t, hit, i, j) ==
    IF Len(t) >= 2 /\ hit
    THEN [t EXCEPT ![i + 1] = t[j + 1]]
    ELSE t

\* hit: random.random() < p;  i, j: random.sample(range(len(tour)), 2).
mutate_swap(t, hit, i, j) ==
    IF Len(t) >= 2 /\ hit
    THEN [t EXCEPT ![i + 1] = t[j + 1], ![j + 1] = t[i + 1]]
    ELSE t

----------------------------------------------------------------------------
(* CVRPSolution (src/src/problem/solution.py)                              *)

_get_coords(node, inst) ==
    IF node = 0 THEN inst.depot ELSE inst.customers[node].coords

_distance_between(node1, node2, inst) ==
    LET coord1 == _get_coords(node1, inst)
        coord2 == _get_coords(node2, inst)
    IN  Sqrt((coord1[1] - coord2[1]) * (coord1[1] - coord2[1])
             + (coord1[2] - coord2[2]) * (coord1[2] - coord2[2]))

RECURSIVE RouteDistanceLoop(_, _, _)
RouteDistanceLoop(route, i, inst) ==
    IF i > Len(route) - 1 THEN 0
    ELSE _distance_between(route[i], route[i + 1], inst)
         + RouteDistanceLoop(route, i + 1, inst)

_route_distance(route, inst) ==
    IF Len(route) <= 2 THEN 0 ELSE RouteDistanceLoop(route, 1, inst)

RECURSIVE _calculate_total_distance(_, _)
_calculate_total_distance(rts, inst) ==
    IF rts = <<>> THEN 0
    ELSE _route_distance(Head(rts), inst)
         + _calculate_total_distance(Tail(rts), inst)

RECURSIVE MaxRouteLength(_, _)
MaxRouteLength(rts, inst) ==
    IF Len(rts) = 1 THEN _route_distance(rts[1], inst)
    ELSE LET m == MaxRouteLength(Tail(rts), inst)
             d == _route_distance(Head(rts), inst)
         IN  IF d >= m THEN d ELSE m

_calculate_route_balance(rts, inst) ==
    IF rts = <<>> THEN 0 ELSE MaxRouteLength(rts, inst)

RECURSIVE _route_load(_, _)
_route_load(route, inst) ==
    IF route = <<>> THEN 0
    ELSE (IF Head(route) # 0 THEN inst.customers[Head(route)].demand ELSE 0)
         + _route_load(Tail(route), inst)

is_feasible(rts, inst) ==
    \A r \in DOMAIN rts : ~(_route_load(rts[r], inst) > inst.capacity)

\* Crowding distance values: None, float('inf'), or a finite value kept as
\* an exact fraction num/den in lowest terms.
NoneCD == [kind |-> "none", num |-> 0, den |-> 1]
InfCD  == [kind |-> "inf",  num |-> 0, den |-> 1]
ZeroCD == [kind |-> "fin",  num |-> 0, den |-> 1]

\* CVRPSolution.__init__: the objectives are computed eagerly; rank 0 is None.
CVRPSolution(rts, inst) ==
    [routes            |-> rts,
     total_distance    |-> _calculate_total_distance(rts, inst),
     route_balance     |-> _calculate_route_balance(rts, inst),
     rank              |-> 0,
     crowding_distance |-> NoneCD,
     fitness           |-> 0]

----------------------------------------------------------------------------
(* Dominance and ranking (src/src/algorithms/utils.py)                     *)

\* Variant: being strictly better in route_balance alone does not count.
dominatesDistanceOnly(sol1, sol2) ==
    IF sol1.total_distance > sol2.total_distance THEN FALSE
    ELSE IF sol1.route_balance > sol2.route_balance THEN FALSE
    ELSE sol1.total_distance < sol2.total_distance

dominates(sol1, sol2) ==
    IF sol1.total_distance > sol2.total_distance THEN FALSE
    ELSE IF sol1.route_balance > sol2.route_balance THEN FALSE
    ELSE \/ sol1.total_distance < sol2.total_distance
         \/ sol1.route_balance < sol2.route_balance

\* p.dominated_by after the pairwise loop: what p dominates, in list order.
RECURSIVE DominatedByLoop(_, _, _, _)
DominatedByLoop(h, pop, i, j) ==
    IF j > Len(pop) THEN <<>>
    ELSE IF i # j /\ dominates(h[pop[i]], h[pop[j]])
         THEN <<pop[j]>> \o DominatedByLoop(h, pop, i, j + 1)
         ELSE DominatedByLoop(h, pop, i, j + 1)

\* p.dominates_count after the pairwise loop: how many dominate p.
DominatesCount(h, pop, i) ==
    Cardinality({j \in DOMAIN pop :
                    /\ i # j
                    /\ ~dominates(h[pop[i]], h[pop[j]])
                    /\ dominates(h[pop[j]], h[pop[i]])})

\* Variant: the first front also takes the solutions dominated once.
RECURSIVE FirstFrontOffByOne(_, _, _)
FirstFrontOffByOne(pop, count, i) ==
    IF i > Len(pop) THEN <<>>
    ELSE IF count[pop[i]] <= 1
         THEN <<pop[i]>> \o FirstFrontOffByOne(pop, count, i + 1)
         ELSE FirstFrontOffByOne(pop, count, i + 1)

\* for p in population: if p.dominates_count == 0: rank = 1, fronts[0] += p
RECURSIVE FirstFront(_, _, _)
FirstFront(pop, count, i) ==
    IF i > Len(pop) THEN <<>>
    ELSE IF count[pop[i]] = 0
         THEN <<pop[i]>> \o FirstFront(pop, count, i + 1)
         ELSE FirstFront(pop, count, i + 1)

\* for q in p.dominated_by: decrement; at zero, rank = i + 2 and q joins
\* next_front.  st = [count, rank, next_front].
RECURSIVE DecrementLoop(_, _, _)
DecrementLoop(qs, st, i) ==
    IF qs = <<>> THEN st
    ELSE LET q == Head(qs)
             c == st.count[q] - 1
         IN  DecrementLoop(Tail(qs),
                [count      |-> [st.count EXCEPT ![q] = c],
                 rank       |-> IF c = 0 THEN [st.rank EXCEPT ![q] = i + 2]
                                ELSE st.rank,
                 next_front |-> IF c = 0 THEN Append(st.next_front, q)
                                ELSE st.next_front],
                i)

RECURSIVE FrontLoop(_, _, _, _)
FrontLoop(front, dominated_by, st, i) ==
    IF front = <<>> THEN st
    ELSE FrontLoop(Tail(front), dominated_by,
                   DecrementLoop(dominated_by[Head(front)], st, i), i)

\* while fronts[i]: ...; fr[i + 1] is Python's fronts[i].
RECURSIVE WhileFronts(_, _, _, _)
WhileFronts(fr, dominated_by, st, i) ==
    IF fr[i + 1] = <<>>
    THEN [fronts |-> SubSeq(fr, 1, Len(fr) - 1), rank |-> st.rank]
    ELSE LET st2 == FrontLoop(fr[i + 1], dominated_by,
                              [st EXCEPT !.next_front = <<>>], i)
         IN  WhileFronts(Append(fr, st2.next_front), dominated_by, st2, i + 1)

\* Returns the fronts (lists of object ids) and the heap with the rank
\* fields written.  The ids of pop are pairwise distinct.
fast_non_dominated_sort(h, pop) ==
    LET ids          == Range(pop)
        pos(id)      == CHOOSE i \in DOMAIN pop : pop[i] = id
        dominated_by == [id \in ids |-> DominatedByLoop(h, pop, pos(id), 1)]
        count        == [id \in ids |-> DominatesCount(h, pop, pos(id))]
        front0       == FirstFront(pop, count, 1)
        rank0        == [id \in ids |->
                            IF count[id] = 0 THEN 1 ELSE h[id].rank]
        res          == WhileFronts(<<front0>>, dominated_by,
                            [count |-> count, rank |-> rank0,
                             next_front |-> <<>>], 0)
    IN  [fronts |-> res.fronts,
         heap   |-> AsList([id \in DOMAIN h |->
                        IF id \in ids THEN [h[id] EXCEPT !.rank = res.rank[id]]
                        ELSE h[id]])]

----------------------------------------------------------------------------
(* Crowding distance and selection (src/src/algorithms/nsga2.py)           *)

Obj(sol, obj) ==
    IF obj = "total_distance" THEN sol.total_distance ELSE sol.route_balance

\* Variant: the term is assigned instead of added.
CDAddOverwrites(cd, num, den) ==
    LET g == GCD(num, den)
    IN  [kind |-> "fin", num |-> num \div g, den |-> den \div g]

\* sol.crowding_distance += num / den
CDAdd(cd, num, den) ==
    IF cd.kind = "inf" THEN InfCD
    ELSE LET n == cd.num * den + num * cd.den
             d == cd.den * den
             g == GCD(n, d)
         IN  [kind |-> "fin", num |-> n \div g, den |-> d \div g]

\* a > b on crowding distances (floats, possibly inf)
CDGreater(a, b) ==
    IF a.kind = "inf" THEN b.kind # "inf"
    ELSE IF b.kind = "inf" THEN FALSE
    ELSE a.num * b.den > b.num * a.den

\* front.sort(key=lambda x: getattr(x, obj))
SortByObjective(h, front, obj) ==
    StableSort(front,
               [pr \in Range(front) \X Range(front) |->
                    Obj(h[pr[1]], obj) < Obj(h[pr[2]], obj)])

\* One pass of the `for obj in objectives` loop over the sorted front fr.
CrowdingPass(h, fr, obj) ==
    LET n         == Len(fr)
        obj_range == Obj(h[fr[n]], obj) - Obj(h[fr[1]], obj)
        interior  == {i \in 2..(n - 1) : TRUE}
        idx(id)   == CHOOSE i \in DOMAIN fr : fr[i] = id
    IN  AsList([id \in DOMAIN h |->
            IF id = fr[1] \/ id = fr[n]
            THEN [h[id] EXCEPT !.crowding_distance = InfCD]
            ELSE IF id \in {fr[i] : i \in interior} /\ obj_range # 0
            THEN [h[id] EXCEPT !.crowding_distance =
                     CDAdd(@, Obj(h[fr[idx(id) + 1]], obj)
                              - Obj(h[fr[idx(id) - 1]], obj), obj_range)]
            ELSE h[id]])

\* Returns the heap with the crowding_distance fields written, the front
\* as the call leaves it (sorted by route_balance) and, for reference, the
\* front as it was after the total_distance sort.
calculate_crowding_distance(h, front) ==
    IF Len(front) <= 2
    THEN [heap   |-> AsList([id \in DOMAIN h |->
                         IF id \in Range(front)
                         THEN [h[id] EXCEPT !.crowding_distance = InfCD]
                         ELSE h[id]]),
          front  |-> front,
          order1 |-> front]
    ELSE LET h0 == AsList([id \in DOMAIN h |->
                       IF id \in Range(front)
                       THEN [h[id] EXCEPT !.crowding_distance = ZeroCD]
                       ELSE h[id]])
             f1 == SortByObjective(h0, front, "total_distance")
             h1 == CrowdingPass(h0, f1, "total_distance")
             f2 == SortByObjective(h1, f1, "route_balance")
             h2 == CrowdingPass(h1, f2, "route_balance")
         IN  [heap |-> h2, front |-> f2, order1 |-> f1]

\* for front in fronts: self.calculate_crowding_distance(front)
RECURSIVE CrowdAllFronts(_, _, _)
CrowdAllFronts(h, frs, done) ==
    IF frs = <<>> THEN [heap |-> h, fronts |-> done]
    ELSE LET r == calculate_crowding_distance(h, Head(frs))
         IN  CrowdAllFronts(r.heap, Tail(frs), Append(done, r.front))

\* Variant: the sort is not reversed.
SortByCrowdingAscending(h, front) ==
    StableSort(front,
               [pr \in Range(front) \X Range(front) |->
                    CDGreater(h[pr[2]].crowding_distance,
                              h[pr[1]].crowding_distance)])

\* front.sort(key=lambda x: x.crowding_distance, reverse=True)
SortByCrowdingDescending(h, front) ==
    StableSort(front,
               [pr \in Range(front) \X Range(front) |->
                    CDGreater(h[pr[1]].crowding_distance,
                              h[pr[2]].crowding_distance)])

\* Variant: the front that overflows is sorted but not truncated.
RECURSIVE SelectLoopNoTruncate(_, _, _, _)
SelectLoopNoTruncate(h, frs, new_population, pop_size) ==
    IF frs = <<>> THEN new_population
    ELSE LET front == Head(frs)
         IN  IF Len(new_population) + Len(front) <= pop_size
             THEN SelectLoopNoTruncate(h, Tail(frs), new_population \o front,
                                       pop_size)
             ELSE new_population \o SortByCrowdingDescending(h, front)

RECURSIVE SelectLoop(_, _, _, _)
SelectLoop(h, frs, new_population, pop_size) ==
    IF frs = <<>> THEN new_population
    ELSE LET front == Head(frs)
         IN  IF Len(new_population) + Len(front) <= pop_size
             THEN SelectLoop(h, Tail(frs), new_population \o front, pop_size)
             ELSE LET remaining == pop_size - Len(new_population)
                  IN  new_population
                      \o SubSeq(SortByCrowdingDescending(h, front),
                                1, remaining)

select_next_generation(h, frs, pop_size) == SelectLoop(h, frs, <<>>, pop_size)

\* The list of fronts as select_next_generation leaves it: the front that
\* overflows has been sorted in place, the others are untouched.
RECURSIVE FrontsAfterSelect(_, _, _, _)
FrontsAfterSelect(h, frs, taken, pop_size) ==
    IF frs = <<>> THEN <<>>
    ELSE IF taken + Len(Head(frs)) <= pop_size
    THEN <<Head(frs)>>
         \o FrontsAfterSelect(h, Tail(frs), taken + Len(Head(frs)), pop_size)
    ELSE <<SortByCrowdingDescending(h, Head(frs))>> \o Tail(frs)

\* participants: random.sample(population, 2), as object ids.
tournament_selection(h, participants) ==
    LET best == participants[1]
        p    == participants[2]
    IN  IF h[p].rank < h[best].rank THEN p
        ELSE IF /\ h[p].rank = h[best].rank
                /\ CDGreater(h[p].crowding_distance,
                             h[best].crowding_distance)
        THEN p
        ELSE best

----------------------------------------------------------------------------
(* SPEA2 fitness and environmental selection                               *)
(* (src/src/algorithms/spea2.py)                                           *)

\* Floats are kept in fixed point: the integer v stands for v / Scale.
Scale == 10000

\* floor of the square root, by bisection (hi * hi stays below 2^31)
RECURSIVE ISqrtSearch(_, _, _)
ISqrtSearch(n, lo, hi) ==
    IF lo >= hi THEN lo
    ELSE LET mid == (lo + hi + 1) \div 2
         IN  IF mid * mid <= n THEN ISqrtSearch(n, mid, hi)
             ELSE ISqrtSearch(n, lo, mid - 1)

ISqrt(n) == ISqrtSearch(n, 0, IF n < 46340 THEN n ELSE 46340)

SetMin(S) == CHOOSE x \in S : \A y \in S : x <= y

SetMax(S) == CHOOSE x \in S : \A y \in S : x >= y

\* list.sort() of a list of numbers
SortAscending(xs) ==
    StableSort(xs, [pr \in Range(xs) \X Range(xs) |-> pr[1] < pr[2]])

spea2_dominates(a, b) ==
    /\ a.total_distance <= b.total_distance
    /\ a.route_balance <= b.route_balance
    /\ (a.total_distance < b.total_distance \/ a.route_balance < b.route_balance)

\* S[i]: the number of union members that union[i] dominates
Strength(h, union, i) ==
    Cardinality({j \in DOMAIN union :
                    i # j /\ spea2_dominates(h[union[i]], h[union[j]])})

\* R[i]: the sum of S[j] over the j that dominate union[i]
RECURSIVE RawFitnessLoop(_, _, _, _)
RawFitnessLoop(h, union, i, j) ==
    IF j > Len(union) THEN 0
    ELSE (IF i # j /\ spea2_dominates(h[union[j]], h[union[i]])
          THEN Strength(h, union, j) ELSE 0)
         + RawFitnessLoop(h, union, i, j + 1)

\* (v - min) / (max - min) if max > min else 0
Normalize(v, lo, hi) ==
    IF hi > lo THEN ((v - lo) * Scale) \div (hi - lo) ELSE 0

\* normalized: the members' objectives scaled to [0, 1] over the list
NormalizedPoints(h, members) ==
    LET f1s == {h[members[i]].total_distance : i \in DOMAIN members}
        f2s == {h[members[i]].route_balance : i \in DOMAIN members}
    IN  AsList([i \in DOMAIN members |->
                  <<Normalize(h[members[i]].total_distance,
                              SetMin(f1s), SetMax(f1s)),
                    Normalize(h[members[i]].route_balance,
                              SetMin(f2s), SetMax(f2s))>>])

\* np.sqrt(dx * dx + dy * dy)
PointDistance(pnt, qnt) ==
    ISqrt((pnt[1] - qnt[1]) * (pnt[1] - qnt[1])
          + (pnt[2] - qnt[2]) * (pnt[2] - qnt[2]))

\* distances: from point i to every other point, in list order
RECURSIVE OtherDistances(_, _, _)
OtherDistances(points, i, j) ==
    IF j > Len(points) THEN <<>>
    ELSE IF i = j THEN OtherDistances(points, i, j + 1)
    ELSE <<PointDistance(points[i], points[j])>>
         \o OtherDistances(points, i, j + 1)

\* k = max(1, int(np.sqrt(n)))
NeighbourRank(n) == IF ISqrt(n) >= 1 THEN ISqrt(n) ELSE 1

\* sigma_k: the distance to the k-th nearest other point, the farthest if
\* there are fewer than k, 0.0 if there is none
SigmaK(points, i, k) ==
    LET distances == SortAscending(OtherDistances(points, i, 1))
    IN  IF distances # <<>>
        THEN IF Len(distances) >= k THEN distances[k]
             ELSE distances[Len(distances)]
        ELSE 0

\* Variant: D[i] = 1 / (sigma_k + 1)
DensityPlusOne(sigma_k) == (Scale * Scale) \div (sigma_k + 1 * Scale)

\* D[i] = 1 / (sigma_k + 2)
Density(sigma_k) == (Scale * Scale) \div (sigma_k + 2 * Scale)

\* Returns the heap with solution.fitness = R[i] + D[i] written for the
\* members of the union (the dict the call returns holds the same values).
_assign_fitness(h, union) ==
    LET n      == Len(union)
        k      == NeighbourRank(n)
        points == NormalizedPoints(h, union)
        F      == [i \in DOMAIN union |->
                      RawFitnessLoop(h, union, i, 1) * Scale
                      + Density(SigmaK(points, i, k))]
    IN  AsList([id \in DOMAIN h |->
                  IF id \in Range(union)
                  THEN [h[id] EXCEPT !.fitness =
                           F[CHOOSE i \in DOMAIN union : union[i] = id]]
                  ELSE h[id]])

\* selected = {solution for solution in union if fitness[solution] < 1.0}
SelectedSet(h, union) == {id \in Range(union) : h[id].fitness < 1 * Scale}

\* A Python set of objects iterates in the order of their hashes, which are
\* their addresses: any order, the same one until the set changes, and the
\* order of the remaining members after a removal.
IterationOrders(S) == TourPermutations(S)

\* min_dist of member i: the distance to its nearest other member
NearestDistance(points, i) ==
    SetMin({PointDistance(points[i], points[j]) :
               j \in DOMAIN points \ {i}})

\* rm_idx: the first member, in iteration order, of smallest min_dist
RemoveIndex(points) ==
    CHOOSE i \in DOMAIN points :
        /\ \A j \in DOMAIN points :
              NearestDistance(points, i) <= NearestDistance(points, j)
        /\ \A j \in 1..(i - 1) :
              NearestDistance(points, j) > NearestDistance(points, i)

\* while len(selected) > size: remove the most crowded member
RECURSIVE TruncateLoop(_, _, _)
TruncateLoop(h, selected, size) ==
    IF Len(selected) > size
    THEN LET rm_idx == RemoveIndex(NormalizedPoints(h, selected))
         IN  TruncateLoop(h,
                 SubSeq(selected, 1, rm_idx - 1)
                 \o SubSeq(selected, rm_idx + 1, Len(selected)),
                 size)
    ELSE selected

\* The fill branch: sorted() of two or more CVRPSolution objects raises
\* TypeError (the class defines no ordering); otherwise selected.extend
\* raises AttributeError (selected is a set).
FillError(h, union) ==
    IF Cardinality(Range(union) \ SelectedSet(h, union)) >= 2
    THEN "TypeError" ELSE "AttributeError"

\* order: the iteration order of the set `selected`.  Returns the list the
\* call returns, or the exception it raises.
_environmental_selection(h, union, size, order) ==
    IF Cardinality(SelectedSet(h, union)) < size
    THEN [err |-> FillError(h, union), selected |-> <<>>]
    ELSE [err |-> "none", selected |-> TruncateLoop(h, order, size)]

----------------------------------------------------------------------------
(* Specification of the codec: split_tour_to_routes, then routes_to_tour,  *)
(* on every permutation of the customers of every drawn instance.          *)

DrawnInstances ==
    UNION {{CVRPInstance(n, demand, capacity) :
                demand \in [CustomerIds(n) -> 0..MaxDemand],
                capacity \in 1..MaxCapacity} : n \in 0..MaxLen}

NoInstance == CVRPInstance(0, <<>>, 1)

\* The state of one execution of SPEA2.run, as the twin holds it.
RunState(h, pop, arch, res, e) ==
    [heap |-> h, population |-> pop, archive |-> arch, result |-> res, err |-> e]

NoTwin == RunState(<<>>, <<>>, <<>>, <<>>, "none")


InitCodec ==
    /\ pc = "codec_input"
    /\ instance \in DrawnInstances
    /\ tour \in TourPermutations(DOMAIN instance.customers)
    /\ routes = <<>> /\ child = <<>> /\ parent2 = <<>>
    /\ heap = <<>> /\ population = <<>> /\ offspring = <<>> /\ fronts = <<>>
    /\ gen = 0 /\ unvisited = {} /\ current = <<>> /\ load = 0
    /\ order1 = <<>> /\ result = <<>> /\ err = "none"
    /\ archive = <<>> /\ twin = NoTwin

CodecSplit ==
    /\ pc = "codec_input"
    /\ routes' = split_tour_to_routes(tour, instance)
    /\ pc' = "codec_split"
    /\ UNCHANGED <<archive, twin>>
    /\ UNCHANGED <<instance, heap, population, offspring, fronts, gen,
                   unvisited, current, load, tour, parent2, child, order1,
                   result, err>>

CodecJoin ==
    /\ pc = "codec_split"
    /\ child' = routes_to_tour(routes)
    /\ pc' = "codec_joined"
    /\ UNCHANGED <<archive, twin>>
    /\ UNCHANGED <<instance, heap, population, offspring, fronts, gen,
                   unvisited, routes, current, load, tour, parent2, order1,
                   result, err>>

NextCodec == CodecSplit \/ CodecJoin

SpecCodec == InitCodec /\ [][NextCodec]_vars

----------------------------------------------------------------------------
(* Specification of the operators: ox_crossover and mutate_swap on every   *)
(* pair of parent tours over the same customers.                           *)

InitOperators ==
    /\ pc = "op_input"
    /\ \E n \in 1..MaxLen :
          /\ tour \in TourPermutations(CustomerIds(n))
          /\ parent2 \in TourPermutations(CustomerIds(n))
    /\ instance = NoInstance
    /\ routes = <<>> /\ child = <<>>
    /\ heap = <<>> /\ population = <<>> /\ offspring = <<>> /\ fronts = <<>>
    /\ gen = 0 /\ unvisited = {} /\ current = <<>> /\ load = 0
    /\ order1 = <<>> /\ result = <<>> /\ err = "none"
    /\ archive = <<>> /\ twin = NoTwin

\* random.sample(range(n), 2) raises ValueError when n < 2.
OxCrossover ==
    /\ pc = "op_input"
    /\ Len(tour) >= 2
    /\ \E a, b \in 0..(Len(tour) - 1) :
          /\ a < b
          /\ child' = ox_crossover(tour, parent2, a, b)
    /\ pc' = "ox_done"
    /\ UNCHANGED <<archive, twin>>
    /\ UNCHANGED <<instance, heap, population, offspring, fronts, gen,
                   unvisited, routes, current, load, tour, parent2, order1,
                   result, err>>

OxCrossoverSampleError ==
    /\ pc = "op_input"
    /\ Len(tour) < 2
    /\ pc' = "error"
    /\ err' = "ValueError"
    /\ UNCHANGED <<archive, twin>>
    /\ UNCHANGED <<instance, heap, population, offspring, fronts, gen,
                   unvisited, routes, current, load, tour, parent2, child,
                   order1, result>>

MutateSwap ==
    /\ pc = "op_input"
    /\ \E hit \in BOOLEAN :
          IF Len(tour) >= 2 /\ hit
          THEN \E i, j \in 0..(Len(tour) - 1) :
                  /\ i # j
                  /\ child' = mutate_swap(tour, hit, i, j)
          ELSE child' = mutate_swap(tour, hit, 0, 0)
    /\ pc' = "mutated"
    /\ UNCHANGED <<archive, twin>>
    /\ UNCHANGED <<instance, heap, population, offspring, fronts, gen,
                   unvisited, routes, current, load, tour, parent2, order1,
                   result, err>>

NextOperators == OxCrossover \/ OxCrossoverSampleError \/ MutateSwap

SpecOperators == InitOperators /\ [][NextOperators]_vars

----------------------------------------------------------------------------
(* Specification of the ranking utilities: fast_non_dominated_sort and     *)
(* calculate_crowding_distance on every list of up to MaxFront solutions   *)
(* with objective values in 0..MaxObj.                                     *)

DrawnSolution(td, rb) ==
    [routes |-> <<>>, total_distance |-> td, route_balance |-> rb,
     rank |-> 0, crowding_distance |-> NoneCD, fitness |-> 0]

DrawnSolutions == {DrawnSolution(td, rb) : td \in 0..MaxObj, rb \in 0..MaxObj}

InitRanking ==
    /\ pc = "rank_input"
    /\ \E n \in 0..MaxFront :
          /\ heap \in [1..n -> DrawnSolutions]
          /\ population = [i \in 1..n |-> i]
    /\ instance = NoInstance
    /\ routes = <<>> /\ child = <<>> /\ tour = <<>> /\ parent2 = <<>>
    /\ offspring = <<>> /\ fronts = <<>>
    /\ gen = 0 /\ unvisited = {} /\ current = <<>> /\ load = 0
    /\ order1 = <<>> /\ result = <<>> /\ err = "none"
    /\ archive = <<>> /\ twin = NoTwin

FastNonDominatedSort ==
    /\ pc = "rank_input"
    /\ \E r \in {fast_non_dominated_sort(heap, population)} :
           /\ heap' = r.heap
           /\ fronts' = r.fronts
    /\ pc' = "ranked"
    /\ UNCHANGED <<archive, twin>>
    /\ UNCHANGED <<instance, population, offspring, gen, unvisited, routes,
                   current, load, tour, parent2, child, order1, result, err>>

\* The drawn list itself is the front handed to the call.
CalculateCrowdingDistance ==
    /\ pc = "rank_input"
    /\ \E r \in {calculate_crowding_distance(heap, population)} :
           /\ heap' = r.heap
           /\ population' = r.front
           /\ order1' = r.order1
    /\ pc' = "crowded"
    /\ UNCHANGED <<archive, twin>>
    /\ UNCHANGED <<instance, offspring, fronts, gen, unvisited, routes,
                   current, load, tour, parent2, child, result, err>>

NextRanking == FastNonDominatedSort \/ CalculateCrowdingDistance

SpecRanking == InitRanking /\ [][NextRanking]_vars

----------------------------------------------------------------------------
(* Specification of the selection of Engine A: every drawn list is ranked, *)
(* then its fronts are given crowding distances and handed to              *)
(* select_next_generation with pop_size = PopSize, as one pass of the      *)
(* generation loop of NSGA2.run does with the merged population.           *)

SelectNextGeneration ==
    /\ pc = "ranked"
    /\ \E c \in {CrowdAllFronts(heap, fronts, <<>>)} :
           /\ heap' = c.heap
           /\ fronts' = FrontsAfterSelect(c.heap, c.fronts, 0, PopSize)
           /\ result' = select_next_generation(c.heap, c.fronts, PopSize)
    /\ pc' = "selected"
    /\ UNCHANGED <<instance, population, offspring, gen, unvisited, routes,
                   current, load, tour, parent2, child, order1, err, archive,
                   twin>>

NextSelectNext == FastNonDominatedSort \/ SelectNextGeneration

SpecSelectNext == InitRanking /\ [][NextSelectNext]_vars

----------------------------------------------------------------------------
(* Specification of Engine A: NSGA2.run (src/src/algorithms/nsga2.py) with *)
(* pop_size = PopSize and generations = Generations.  Every random draw is *)
(* a nondeterministic choice among the values the draw can return.         *)

UnitDemand(n) == [c \in CustomerIds(n) |-> 1]

\* Three customers that fit two by two (the three ways of pairing them
\* give three total distances); a single customer; and an instance whose
\* second customer exceeds the capacity on its own.
EngineInstances ==
    {CVRPInstance(3, UnitDemand(3), 2),
     CVRPInstance(1, UnitDemand(1), 1),
     CVRPInstance(2, [c \in CustomerIds(2) |-> c - 1], 1)}

\* Objects no list refers to any more are dropped and the live ones
\* renumbered in list order; identity is otherwise immaterial.
Compact(h, live) == AsList([k \in 1..Len(live) |-> h[live[k]]])

Iota(from, n) == AsList([k \in 1..n |-> from + k - 1])

\* candidates = [c for c in unvisited if load + demand[c] <= capacity]
Candidates(inst, unv, ld) ==
    {c \in unv : ld + inst.customers[c].demand <= inst.capacity}

Init ==
    /\ pc = "init"
    /\ instance \in EngineInstances
    /\ heap = <<>> /\ population = <<>> /\ offspring = <<>> /\ fronts = <<>>
    /\ gen = 0
    /\ unvisited = DOMAIN instance.customers
    /\ routes = <<>> /\ current = <<0>> /\ load = 0
    /\ tour = <<>> /\ parent2 = <<>> /\ child = <<>>
    /\ order1 = <<>> /\ result = <<>> /\ err = "none"
    /\ archive = <<>> /\ twin = NoTwin

\* initialize_population, one pass of `while unvisited` that picks a customer
GreedyPick ==
    /\ pc = "init"
    /\ Len(population) < PopSize
    /\ unvisited # {}
    /\ \E next_customer \in Candidates(instance, unvisited, load) :
          /\ current' = Append(current, next_customer)
          /\ load' = load + instance.customers[next_customer].demand
          /\ unvisited' = unvisited \ {next_customer}
    /\ UNCHANGED <<archive, twin>>
    /\ UNCHANGED <<pc, instance, heap, population, offspring, fronts, gen,
                   routes, tour, parent2, child, order1, result, err>>

\* initialize_population, one pass of `while unvisited` with no candidate
GreedyClose ==
    /\ pc = "init"
    /\ Len(population) < PopSize
    /\ unvisited # {}
    /\ Candidates(instance, unvisited, load) = {}
    /\ Len(routes) < MaxRoutes
    /\ routes' = Append(routes, Append(current, 0))
    /\ current' = <<0>>
    /\ load' = 0
    /\ UNCHANGED <<archive, twin>>
    /\ UNCHANGED <<pc, instance, heap, population, offspring, fronts, gen,
                   unvisited, tour, parent2, child, order1, result, err>>

\* initialize_population, after `while unvisited`: close the last route,
\* construct the solution, and enter the next pass of the for loop.
GreedyFinish ==
    /\ pc = "init"
    /\ Len(population) < PopSize
    /\ unvisited = {}
    /\ LET last == IF current[Len(current)] # 0 THEN Append(current, 0)
                   ELSE current
           rts  == Append(routes, last)
       IN  /\ heap' = Append(heap, CVRPSolution(rts, instance))
           /\ population' = Append(population, Len(heap) + 1)
    /\ unvisited' = DOMAIN instance.customers
    /\ routes' = <<>> /\ current' = <<0>> /\ load' = 0
    /\ UNCHANGED <<archive, twin>>
    /\ UNCHANGED <<pc, instance, offspring, fronts, gen, tour, parent2, child,
                   order1, result, err>>

\* run(): the initial ranking and crowding distance
InitialRanking ==
    /\ pc = "init"
    /\ Len(population) = PopSize
    /\ \E r \in {fast_non_dominated_sort(heap, population)} :
       \E c \in {CrowdAllFronts(r.heap, r.fronts, <<>>)} :
           /\ heap' = c.heap
           /\ fronts' = c.fronts
    /\ pc' = IF Generations = 0 THEN "final" ELSE "vary"
    /\ unvisited' = {} /\ current' = <<>>
    /\ UNCHANGED <<archive, twin>>
    /\ UNCHANGED <<instance, population, offspring, gen, routes, load, tour,
                   parent2, child, order1, result, err>>

\* random.sample(population, 2): the ordered pairs of distinct positions.
Sample2(pop) == {s \in (DOMAIN pop) \X (DOMAIN pop) : s[1] # s[2]}

\* The winners tournament_selection can return, over all draws of
\* random.sample(population, 2).
TournamentOutcomes(h, pop) ==
    {tournament_selection(h, <<pop[s[1]], pop[s[2]]>>) : s \in Sample2(pop)}

\* The children ox_crossover can return, over all cuts a < b drawn by
\* sorted(random.sample(range(n), 2)); n >= 2.
CrossoverOutcomes(parent1_tour, parent2_tour) ==
    {ox_crossover(parent1_tour, parent2_tour, c[1], c[2]) :
        c \in {c \in (0..(Len(parent1_tour) - 1)) \X (0..(Len(parent1_tour) - 1)) :
                  c[1] < c[2]}}

\* The tours mutate_swap can return, over the draw random.random() < p and
\* the positions i, j = random.sample(range(len(tour)), 2).
MutateOutcomes(t) ==
    {mutate_swap(t, FALSE, 0, 0)}
    \cup {mutate_swap(t, TRUE, s[1] - 1, s[2] - 1) : s \in Sample2(t)}

\* The child tours one pass of create_offspring's loop can produce from
\* the chosen parents: OX (when random.random() < crossover_prob, which
\* needs a tour of two genes or more) or a clone of parent1, then mutation.
ChildTourOutcomes(parent1_tour, parent2_tour) ==
    UNION {MutateOutcomes(child_tour) :
              child_tour \in {parent1_tour}
                  \cup (IF Len(parent1_tour) >= 2
                        THEN CrossoverOutcomes(parent1_tour, parent2_tour)
                        ELSE {})}

\* create_offspring, one pass of the while loop.  random.sample(population, 2)
\* needs two individuals, which PopSize >= 2 provides.
CreateChild ==
    /\ pc = "vary"
    /\ Len(offspring) < PopSize
    /\ Len(population) >= 2
    /\ \E child_tour \in
            UNION {ChildTourOutcomes(routes_to_tour(heap[parent1].routes),
                                     routes_to_tour(heap[parent2_].routes)) :
                      parent1 \in TournamentOutcomes(heap, population),
                      parent2_ \in TournamentOutcomes(heap, population)} :
          LET child_routes == tour_to_routes(child_tour, instance)
              live == Compact(heap, population \o offspring)
          IN  heap' = Append(live, CVRPSolution(child_routes, instance))
    /\ population' = Iota(1, Len(population))
    /\ offspring' = Iota(Len(population) + 1, Len(offspring) + 1)
    /\ fronts' = <<>>
    /\ UNCHANGED <<archive, twin>>
    /\ UNCHANGED <<pc, instance, gen, unvisited, routes, current, load, tour,
                   parent2, child, order1, result, err>>

\* create_offspring, a pass in which crossover is drawn on a tour of fewer
\* than two genes: random.sample(range(n), 2) raises ValueError.
CreateChildSampleError ==
    /\ pc = "vary"
    /\ Len(offspring) < PopSize
    /\ Len(population) >= 2
    /\ \E parent1 \in TournamentOutcomes(heap, population) :
          Len(routes_to_tour(heap[parent1].routes)) < 2
    /\ pc' = "error"
    /\ err' = "ValueError"
    /\ UNCHANGED <<archive, twin>>
    /\ UNCHANGED <<instance, heap, population, offspring, fronts, gen,
                   unvisited, routes, current, load, tour, parent2, child,
                   order1, result>>

\* run(), the rest of one pass of the generation loop: merge, rank, crowding
\* distance, selection and the population-size assertion.  (\E x \in {e}
\* names the value of e.)
NextGeneration ==
    /\ pc = "vary"
    /\ Len(offspring) = PopSize
    /\ \E r \in {fast_non_dominated_sort(heap, population \o offspring)} :
       \E c \in {CrowdAllFronts(r.heap, r.fronts, <<>>)} :
       \E selected \in {select_next_generation(c.heap, c.fronts, PopSize)} :
           /\ heap' = c.heap
           /\ fronts' = FrontsAfterSelect(c.heap, c.fronts, 0, PopSize)
           /\ population' = selected
           /\ IF Len(selected) = PopSize
              THEN /\ gen' = gen + 1
                   /\ pc' = IF gen + 1 < Generations THEN "vary" ELSE "final"
                   /\ err' = err
              ELSE /\ gen' = gen
                   /\ pc' = "error"
                   /\ err' = "AssertionError"
    /\ offspring' = <<>>
    /\ UNCHANGED <<archive, twin>>
    /\ UNCHANGED <<instance, unvisited, routes, current, load, tour, parent2,
                   child, order1, result>>

\* run(), after the loop: rank the final population, return its first front.
ReturnFront ==
    /\ pc = "final"
    /\ \E pop \in {Iota(1, Len(population))} :
       \E r \in {fast_non_dominated_sort(Compact(heap, population), pop)} :
           /\ heap' = r.heap
           /\ population' = pop
           /\ fronts' = r.fronts
           /\ result' = IF r.fronts # <<>> /\ Len(r.fronts[1]) > 0
                        THEN r.fronts[1] ELSE <<>>
    /\ pc' = "done"
    /\ UNCHANGED <<archive, twin>>
    /\ UNCHANGED <<instance, offspring, gen, unvisited, routes, current, load,
                   tour, parent2, child, order1, err>>

Next ==
    \/ GreedyPick
    \/ GreedyClose
    \/ GreedyFinish
    \/ InitialRanking
    \/ CreateChild
    \/ CreateChildSampleError
    \/ NextGeneration
    \/ ReturnFront

Spec == Init /\ [][Next]_vars

----------------------------------------------------------------------------
(* Specification of Engine B: two executions of SPEA2.run                  *)
(* (src/src/algorithms/spea2.py) on the same instance, with the same       *)
(* parameters and fed the same random draws.  The first execution lives in *)
(* heap, population, archive, result and err, the second one in twin.      *)
(* Whatever an execution takes from elsewhere than the instance, the       *)
(* parameters and the draws (the iteration order of a set of objects) is   *)
(* chosen separately for each.                                             *)

Primary == RunState(heap, population, archive, result, err)

SetPrimary(r) ==
    /\ heap' = r.heap
    /\ population' = r.population
    /\ archive' = r.archive
    /\ result' = r.result
    /\ err' = r.err

\* An execution that has raised makes no further step.
Guarded(r, next) == IF r.err # "none" THEN r ELSE next

\* combined = population + archive; fitness = self._assign_fitness(combined)
StepAssign(r) ==
    [r EXCEPT !.heap = _assign_fitness(r.heap, r.population \o r.archive)]

\* archive = self._environmental_selection(combined, fitness, self.pop_size)
StepSelect(r, size, order) ==
    LET out == _environmental_selection(r.heap, r.population \o r.archive,
                                        size, order)
    IN  IF out.err # "none" THEN [r EXCEPT !.err = out.err]
        ELSE [r EXCEPT !.heap = Compact(r.heap, out.selected),
                       !.archive = Iota(1, Len(out.selected)),
                       !.population = <<>>]

SelectOrders(r, size) ==
    IF r.err # "none"
       \/ Cardinality(SelectedSet(r.heap, r.population \o r.archive)) < size
    THEN {<<>>}
    ELSE IterationOrders(SelectedSet(r.heap, r.population \o r.archive))

\* Binary tournament of the mating step: the lower combined fitness wins.
spea2_tournament(h, participants) ==
    LET best == participants[1]
        p    == participants[2]
    IN  IF h[p].fitness < h[best].fitness THEN p ELSE best

\* The child tour of one mating: cross is the draw random.random() <
\* crossover_prob, a < b the cut, hit and i, j the draws of mutate_swap.
ChildTour(parent1_tour, parent2_tour, cross, a, b, hit, i, j) ==
    mutate_swap(IF cross THEN ox_crossover(parent1_tour, parent2_tour, a, b)
                ELSE parent1_tour,
                hit, i, j)

\* One child of _mating_and_variation: tournament (s1, s2 are the draws of
\* random.sample over the archive positions), OX or clone, mutation,
\* decoding, construction.
StepMate(r, inst, s1, s2, cross, a, b, hit, i, j) ==
    LET parent1  == spea2_tournament(r.heap, <<r.archive[s1[1]], r.archive[s1[2]]>>)
        parent2_ == spea2_tournament(r.heap, <<r.archive[s2[1]], r.archive[s2[2]]>>)
        child_tour == ChildTour(routes_to_tour(r.heap[parent1].routes),
                                routes_to_tour(r.heap[parent2_].routes),
                                cross, a, b, hit, i, j)
    IN  [r EXCEPT !.heap = Append(@, CVRPSolution(tour_to_routes(child_tour, inst), inst)),
                  !.population = Append(@, Len(r.heap) + 1)]

\* final_fronts = fast_non_dominated_sort(archive); return final_fronts[0]
StepFinal(r) ==
    LET s == fast_non_dominated_sort(r.heap, r.archive)
    IN  [r EXCEPT !.heap = s.heap,
                  !.result = IF s.fronts # <<>> /\ Len(s.fronts[1]) > 0
                             THEN s.fronts[1] ELSE <<>>]

\* run(): after initialize_population, archive = [] and the loop is entered.
\* Both executions have built the same population from the same draws.
BeginGenerations ==
    /\ pc = "init"
    /\ Len(population) = PopSize
    /\ archive' = <<>>
    /\ twin' = RunState(heap, population, <<>>, <<>>, "none")
    /\ pc' = IF Generations = 0 THEN "b_final" ELSE "b_union"
    /\ unvisited' = {} /\ current' = <<>>
    /\ UNCHANGED <<instance, heap, population, offspring, fronts, gen, routes,
                   load, tour, parent2, child, order1, result, err>>

AssignFitness ==
    /\ pc = "b_union"
    /\ \E r1 \in {StepAssign(Primary)} :
       \E r2 \in {Guarded(twin, StepAssign(twin))} :
          /\ SetPrimary(r1)
          /\ twin' = r2
    /\ pc' = "b_select"
    /\ UNCHANGED <<instance, offspring, fronts, gen, unvisited, routes,
                   current, load, tour, parent2, child, order1>>

EnvironmentalSelection ==
    /\ pc = "b_select"
    /\ Cardinality(SelectedSet(heap, population \o archive)) >= PopSize
    /\ \E order \in IterationOrders(SelectedSet(heap, population \o archive)) :
       \E order2 \in SelectOrders(twin, PopSize) :
       \E r1 \in {StepSelect(Primary, PopSize, order)} :
       \E r2 \in {Guarded(twin, StepSelect(twin, PopSize, order2))} :
          /\ SetPrimary(r1)
          /\ twin' = r2
    /\ pc' = "b_mate"
    /\ UNCHANGED <<instance, offspring, fronts, gen, unvisited, routes,
                   current, load, tour, parent2, child, order1>>

\* Fewer than pop_size members have fitness < 1: the fill branch raises.
EnvironmentalSelectionError ==
    /\ pc = "b_select"
    /\ Cardinality(SelectedSet(heap, population \o archive)) < PopSize
    /\ err' = FillError(heap, population \o archive)
    /\ pc' = "error"
    /\ UNCHANGED <<instance, heap, population, offspring, fronts, gen,
                   unvisited, routes, current, load, tour, parent2, child,
                   order1, result, archive, twin>>

\* _mating_and_variation, one child; the last child ends the generation.
Mate ==
    /\ pc = "b_mate"
    /\ Len(population) < PopSize
    /\ Len(archive) >= 2
    /\ \E s1, s2 \in Sample2(archive) : \E cross, hit \in BOOLEAN :
       \E n \in {Len(routes_to_tour(heap[archive[1]].routes))} :
       \E a, b, i, j \in 0..(n - 1) :
          /\ cross => n >= 2
          /\ IF cross THEN a < b ELSE a = 0 /\ b = 0
          /\ IF hit /\ n >= 2 THEN i # j ELSE i = 0 /\ j = 0
          /\ \E r1 \in {StepMate(Primary, instance, s1, s2, cross, a, b, hit, i, j)} :
             \E r2 \in {Guarded(twin, StepMate(twin, instance, s1, s2, cross,
                                               a, b, hit, i, j))} :
                /\ SetPrimary(r1)
                /\ twin' = r2
                /\ IF Len(r1.population) = PopSize
                   THEN /\ gen' = gen + 1
                        /\ pc' = IF gen + 1 < Generations THEN "b_union"
                                  ELSE "b_final"
                   ELSE UNCHANGED <<gen, pc>>
    /\ UNCHANGED <<instance, offspring, fronts, unvisited, routes, current,
                   load, tour, parent2, child, order1>>

\* Crossover drawn on a tour of fewer than two genes: random.sample raises.
MateSampleError ==
    /\ pc = "b_mate"
    /\ Len(population) < PopSize
    /\ Len(archive) >= 2
    /\ Len(routes_to_tour(heap[archive[1]].routes)) < 2
    /\ pc' = "error"
    /\ err' = "ValueError"
    /\ UNCHANGED <<instance, heap, population, offspring, fronts, gen,
                   unvisited, routes, current, load, tour, parent2, child,
                   order1, result, archive, twin>>

ReturnFrontB ==
    /\ pc = "b_final"
    /\ \E r1 \in {StepFinal(Primary)} :
       \E r2 \in {Guarded(twin, StepFinal(twin))} :
          /\ SetPrimary(r1)
          /\ twin' = r2
    /\ pc' = "b_done"
    /\ UNCHANGED <<instance, offspring, fronts, gen, unvisited, routes,
                   current, load, tour, parent2, child, order1>>

NextB ==
    \/ GreedyPick
    \/ GreedyClose
    \/ GreedyFinish
    \/ BeginGenerations
    \/ AssignFitness
    \/ EnvironmentalSelection
    \/ EnvironmentalSelectionError
    \/ Mate
    \/ MateSampleError
    \/ ReturnFrontB

SpecB == Init /\ [][NextB]_vars

----------------------------------------------------------------------------
(* Specification of SPEA2's fitness assignment and environmental           *)
(* selection on every union of PopSize..MaxFront solutions with objective  *)
(* values in 0..MaxObj (a single execution: the twin is absent).           *)

InitSelection ==
    /\ pc = "b_union"
    /\ \E n \in PopSize..MaxFront :
          /\ heap \in [1..n -> DrawnSolutions]
          /\ population = Iota(1, n)
    /\ archive = <<>>
    /\ twin = RunState(<<>>, <<>>, <<>>, <<>>, "absent")
    /\ instance = NoInstance
    /\ routes = <<>> /\ child = <<>> /\ tour = <<>> /\ parent2 = <<>>
    /\ offspring = <<>> /\ fronts = <<>>
    /\ gen = 0 /\ unvisited = {} /\ current = <<>> /\ load = 0
    /\ order1 = <<>> /\ result = <<>> /\ err = "none"

NextSelection ==
    \/ AssignFitness
    \/ EnvironmentalSelection
    \/ EnvironmentalSelectionError

SpecSelection == InitSelection /\ [][NextSelection]_vars

----------------------------------------------------------------------------
(* Properties                                                              *)

\* How often object id occurs in the list of lists ls.
Occurrences(ls, id) ==
    Cardinality({ki \in UNION {{<<k, i>> : i \in DOMAIN ls[k]} : k \in DOMAIN ls} :
                    ls[ki[1]][ki[2]] = id})

\* The non-depot entries of rts hold every customer exactly once, and
\* nothing but customers.
IsPartition(rts, inst) ==
    /\ \A c \in DOMAIN inst.customers : Occurrences(rts, c) = 1
    /\ \A r \in DOMAIN rts : \A i \in DOMAIN rts[r] :
          rts[r][i] = 0 \/ rts[r][i] \in DOMAIN inst.customers

\* C1: every Solution constructed in an Engine A run (initial population
\* and every offspring of every generation) has routes whose non-depot
\* entries contain every customer of the instance exactly once.
C1_PartitionInvariant ==
    \A id \in DOMAIN heap : IsPartition(heap[id].routes, instance)

C1_Witness ==
    /\ pc = "vary"
    /\ \E o \in Range(offspring) :
          /\ Len(heap[o].routes) >= 2
          /\ \A q \in Range(population) : heap[q].routes # heap[o].routes

\* C2: in every generation select_next_generation returns exactly pop_size
\* members from the fronts of the merged population, so the assertion at
\* the generation boundary never fails.
C2_PopulationSizeKept ==
    /\ err # "AssertionError"
    /\ (gen >= 1 => Len(population) = PopSize)

C2_Witness ==
    /\ gen >= 1
    /\ pc \in {"vary", "final"}
    /\ fronts # <<>>
    /\ Len(fronts[1]) > PopSize
    /\ Len(population) = PopSize

\* The routes of a returned front, in order.
FrontRoutes(h, res) == [k \in DOMAIN res |-> h[res[k]].routes]

\* C9: two executions of run() with the same instance, parameters and
\* random draws return identical final fronts: the same solutions, with
\* the same routes, in the same order.
C9_Deterministic ==
    pc = "b_done" =>
        /\ twin.err = "none"
        /\ FrontRoutes(heap, result) = FrontRoutes(twin.heap, twin.result)

\* C10: environmental selection returns exactly pop_size members for every
\* union of at least pop_size members, without raising.
C10_SelectionReturnsP ==
    pc \in {"b_mate", "error"} =>
        /\ err = "none"
        /\ Len(archive) = PopSize

\* C3: fast_non_dominated_sort returns non-empty fronts that partition the
\* input exactly (every input solution in exactly one front, nothing else),
\* in rank order: the k-th front holds exactly the solutions of rank k.
C3_FrontsPartitionInRankOrder ==
    pc = "ranked" =>
        /\ \A k \in DOMAIN fronts : fronts[k] # <<>>
        /\ \A id \in Range(population) : Occurrences(fronts, id) = 1
        /\ \A k \in DOMAIN fronts : Range(fronts[k]) \subseteq Range(population)
        /\ \A k \in DOMAIN fronts :
              Range(fronts[k]) = {id \in Range(population) : heap[id].rank = k}

C3_Witness ==
    /\ pc = "ranked"
    /\ Len(fronts) >= 3
    /\ \E k \in DOMAIN fronts : Len(fronts[k]) >= 2

\* Pareto dominance as the specification words it: no worse in both
\* objectives and strictly better in at least one.
ParetoDominates(x, y) ==
    /\ x.total_distance <= y.total_distance
    /\ x.route_balance <= y.route_balance
    /\ (x.total_distance < y.total_distance \/ x.route_balance < y.route_balance)

\* C4: in the output of fast_non_dominated_sort no member of a front
\* dominates another member of the same front.
C4_NoDominanceWithinFront ==
    pc = "ranked" =>
        \A k \in DOMAIN fronts : \A i, j \in DOMAIN fronts[k] :
            ~ParetoDominates(heap[fronts[k][i]], heap[fronts[k][j]])

C4_Witness ==
    /\ pc = "ranked"
    /\ Len(fronts) >= 2
    /\ \E k \in DOMAIN fronts : \E i, j \in DOMAIN fronts[k] :
          heap[fronts[k][i]].total_distance < heap[fronts[k][j]].total_distance

\* C5: routes_to_tour(split_tour_to_routes(t, instance)) = t for every
\* permutation t of the customers of every instance.
C5_RoundTrip ==
    pc = "codec_joined" => child = tour

C5_Witness ==
    /\ pc = "codec_joined"
    /\ Len(tour) >= 3
    /\ Len(routes) >= 2

AllDemandsFit(inst) ==
    \A c \in DOMAIN inst.customers : inst.customers[c].demand <= inst.capacity

\* C6 as stated: for every tour and every instance, whatever the demands and
\* the capacity, each route returned by split_tour_to_routes has a demand
\* sum of at most the capacity.
C6_AlwaysFeasible ==
    pc = "codec_split" => is_feasible(routes, instance)

\* C6 amended: for every tour and every instance in which no customer's
\* demand exceeds the capacity, each route returned by split_tour_to_routes
\* has a demand sum of at most the capacity.
C6_FeasibleWhenDemandsFit ==
    (pc = "codec_split" /\ AllDemandsFit(instance)) =>
        is_feasible(routes, instance)

C6_Witness ==
    /\ pc = "codec_split"
    /\ AllDemandsFit(instance)
    /\ Len(routes) >= 2
    /\ \E r \in DOMAIN routes : _route_load(routes[r], instance) = instance.capacity

\* C7: for parents that are permutations of the same id set and any cut
\* a < b, ox_crossover returns a child of the same length with every
\* position filled and every gene of the set exactly once.
C7_OxYieldsPermutation ==
    pc = "ox_done" =>
        /\ Len(child) = Len(tour)
        /\ \A i \in DOMAIN child : child[i] # None
        /\ \A g \in Range(tour) :
              Cardinality({i \in DOMAIN child : child[i] = g}) = 1

C7_Witness ==
    /\ pc = "ox_done"
    /\ child # tour
    /\ child # parent2
    /\ Len(child) >= 3

IsAscending(order, obj) ==
    \A i \in 1..(Len(order) - 1) :
        Obj(heap[order[i]], obj) <= Obj(heap[order[i + 1]], obj)

EndsInfinite(order) ==
    /\ heap[order[1]].crowding_distance.kind = "inf"
    /\ heap[order[Len(order)]].crowding_distance.kind = "inf"

\* C8: after calculate_crowding_distance(front), a front of at most 2
\* members has only infinite crowding distances; otherwise, for each
\* objective, the first and the last member of the front in that
\* objective's ascending sort are infinite on return.
C8_BoundariesInfinite ==
    pc = "crowded" =>
        IF Len(population) <= 2
        THEN \A id \in Range(population) :
                heap[id].crowding_distance.kind = "inf"
        ELSE /\ Range(order1) = Range(population)
             /\ Len(order1) = Len(population)
             /\ IsAscending(order1, "total_distance")
             /\ EndsInfinite(order1)
             /\ IsAscending(population, "route_balance")
             /\ EndsInfinite(population)

C8_Witness ==
    /\ pc = "crowded"
    /\ Len(population) >= 3
    /\ {order1[1], order1[Len(order1)]}
         # {population[1], population[Len(population)]}
    /\ \E id \in Range(population) :
          /\ heap[id].crowding_distance.kind = "fin"
          /\ heap[id].crowding_distance.num > 0

----------------------------------------------------------------------------
(* Engine B under fair scheduling, on the instances on which the greedy    *)
(* construction completes (no demand above the capacity).  run() is        *)
(* sequential code and each of its phases is a bounded loop, so a run that *)
(* has neither returned nor raised does not stay in one phase for ever.    *)

InitFitting == Init /\ AllDemandsFit(instance)

Phases ==
    {"init", "b_union", "b_select", "b_mate", "b_final", "b_done", "error"}

\* run() has returned, or has raised
Halted == pc \in {"b_done", "error"}

LeavePhase == ~Halted /\ pc' \in Phases \ {pc}

SpecBFair == InitFitting /\ [][NextB]_vars /\ WF_pc(LeavePhase)

\* C11: for every G >= 1, SPEA2.run eventually reaches Done without an
\* error: every generation performs union, fitness assignment,
\* environmental selection and mating, and the run returns the rank-1
\* front of the final archive.
C11_RunReachesDone == <>(pc = "b_done")

\* C12: after _assign_fitness on a union of more than one member, a member
\* with raw fitness R = 0 has combined fitness F < 1 and a member with
\* R > 0 has F >= 1, so F < 1 holds of exactly the members that no member
\* of the union dominates.
C12_FitnessBelowOneIffNondominated ==
    pc = "b_select" =>
        LET union == population \o archive
        IN  \A i \in DOMAIN union :
               /\ RawFitnessLoop(heap, union, i, 1) = 0
                     => heap[union[i]].fitness < 1 * Scale
               /\ RawFitnessLoop(heap, union, i, 1) > 0
                     => heap[union[i]].fitness >= 1 * Scale
               /\ heap[union[i]].fitness < 1 * Scale
                     <=> ~\E j \in DOMAIN union :
                            ParetoDominates(heap[union[j]], heap[union[i]])

C12_Witness ==
    /\ pc = "b_select"
    /\ Len(population \o archive) >= 3
    /\ \E i, j \in DOMAIN population :
          /\ heap[population[i]].fitness < 1 * Scale
          /\ heap[population[j]].fitness >= 2 * Scale
    /\ \E i, j \in DOMAIN population :
          /\ i # j
          /\ heap[population[i]].total_distance = heap[population[j]].total_distance
          /\ heap[population[i]].route_balance = heap[population[j]].route_balance
          /\ heap[population[i]].fitness < 1 * Scale

\* C13: on an instance with exactly one customer an Engine A run never
\* reaches an error state: offspring generation on the tour of one gene
\* always yields a Solution.
C13_SingleCustomerNoError ==
    Cardinality(DOMAIN instance.customers) = 1 => pc # "error"

----------------------------------------------------------------------------
(* Specification of the constructor: CVRPSolution(routes, instance)        *)
(* (src/src/problem/solution.py) on every list of 1..MaxDrawnRoutes routes *)
(* of 1..MaxEntries entries drawn from the depot marker, the customers of  *)
(* a two-customer instance and the first id the instance does not hold.    *)

ConstructInstance == CVRPInstance(2, UnitDemand(2), 2)

DrawnIds(inst) ==
    {0} \cup DOMAIN inst.customers
        \cup {SetMax(DOMAIN inst.customers) + 1}

DrawnRoutes(inst) ==
    UNION {[1..n -> DrawnIds(inst)] : n \in 1..MaxEntries}

\* self.instance.customers[node]: the lookup of an id that is no key of
\* the dict raises KeyError.  _route_distance looks up every entry of a
\* route of more than two entries, and none of a shorter route.
RaisesKeyError(rts, inst) ==
    \E r \in DOMAIN rts :
        /\ ~(Len(rts[r]) <= 2)
        /\ \E i \in DOMAIN rts[r] :
              rts[r][i] # 0 /\ rts[r][i] \notin DOMAIN inst.customers

InitConstruct ==
    /\ pc = "construct_input"
    /\ instance = ConstructInstance
    /\ \E n \in 1..MaxDrawnRoutes : routes \in [1..n -> DrawnRoutes(instance)]
    /\ heap = <<>> /\ population = <<>> /\ offspring = <<>> /\ fronts = <<>>
    /\ tour = <<>> /\ child = <<>> /\ parent2 = <<>>
    /\ gen = 0 /\ unvisited = {} /\ current = <<>> /\ load = 0
    /\ order1 = <<>> /\ result = <<>> /\ err = "none"
    /\ archive = <<>> /\ twin = NoTwin

\* CVRPSolution.__init__ runs to its end: the object exists.
Construct ==
    /\ pc = "construct_input"
    /\ ~RaisesKeyError(routes, instance)
    /\ heap' = <<CVRPSolution(routes, instance)>>
    /\ pc' = "constructed"
    /\ UNCHANGED <<instance, population, offspring, fronts, gen, unvisited,
                   routes, current, load, tour, parent2, child, order1,
                   result, err, archive, twin>>

\* CVRPSolution.__init__ raises while it computes the objectives.
ConstructKeyError ==
    /\ pc = "construct_input"
    /\ RaisesKeyError(routes, instance)
    /\ pc' = "error"
    /\ err' = "KeyError"
    /\ UNCHANGED <<instance, heap, population, offspring, fronts, gen,
                   unvisited, routes, current, load, tour, parent2, child,
                   order1, result, archive, twin>>

NextConstruct == Construct \/ ConstructKeyError

SpecConstruct == InitConstruct /\ [][NextConstruct]_vars

\* Some route holds an id that is neither the depot marker nor a customer
\* of the instance.
ReferencesAbsentId(rts, inst) ==
    \E r \in DOMAIN rts : \E i \in DOMAIN rts[r] :
        rts[r][i] # 0 /\ rts[r][i] \notin DOMAIN inst.customers

\* C14: constructing a CVRPSolution fails with an error whenever a route
\* references a non-depot id that the instance does not hold, for every
\* shape of route (routes of one or two entries included), and no Solution
\* object results.
C14_AbsentIdRejected ==
    (pc \in {"constructed", "error"} /\ ReferencesAbsentId(routes, instance))
        => (pc = "error" /\ heap = <<>>)

\* a >= b on crowding distances, stated on the values: inf is the
\* greatest, finite values compare as fractions.
CDAtLeast(a, b) ==
    \/ a.kind = "inf"
    \/ a.kind = "fin" /\ b.kind = "fin" /\ a.num * b.den >= b.num * a.den

\* The number of members of the fronts before front k.
RECURSIVE SizeBefore(_, _)
SizeBefore(frs, k) ==
    IF k <= 1 THEN 0 ELSE Len(frs[k - 1]) + SizeBefore(frs, k - 1)

\* Front k is the first front that does not fit in the remaining slots.
FirstOverflow(frs, k, pop_size) ==
    /\ k \in DOMAIN frs
    /\ SizeBefore(frs, k) + Len(frs[k]) > pop_size
    /\ \A j \in 1..(k - 1) : SizeBefore(frs, j) + Len(frs[j]) <= pop_size

\* C15: select_next_generation builds the next population front by front:
\* if front k is the first that does not fit, the result holds every member
\* of the fronts before k, exactly pop_size minus those many members of
\* front k and no member of a later front, and no dropped member of front
\* k has a greater crowding distance than a kept one.
C15_SelectionByFrontThenCrowding ==
    pc = "selected" =>
        \A k \in DOMAIN fronts :
            FirstOverflow(fronts, k, PopSize) =>
                /\ \A j \in 1..(k - 1) : Range(fronts[j]) \subseteq Range(result)
                /\ Cardinality(Range(result) \cap Range(fronts[k]))
                      = PopSize - SizeBefore(fronts, k)
                /\ Len(result) = PopSize
                /\ \A j \in (k + 1)..Len(fronts) :
                      Range(fronts[j]) \cap Range(result) = {}
                /\ \A kept \in Range(fronts[k]) \cap Range(result) :
                   \A dropped \in Range(fronts[k]) \ Range(result) :
                      CDAtLeast(heap[kept].crowding_distance,
                                heap[dropped].crowding_distance)

C15_Witness ==
    /\ pc = "selected"
    /\ FirstOverflow(fronts, 2, PopSize)
    /\ Len(fronts) >= 3
    /\ Range(fronts[2]) \cap Range(result) # {}
    /\ Range(fronts[2]) \ Range(result) # {}

----------------------------------------------------------------------------
(* Engine A under fair scheduling of the greedy construction:              *)
(* initialize_population is sequential code, so a pass of its loops that   *)
(* can be taken is taken.                                                  *)

GreedyStep == GreedyPick \/ GreedyClose \/ GreedyFinish

SpecGreedyFair == Init /\ [][Next]_vars /\ WF_vars(GreedyStep)

\* C16: the greedy construction of initialize_population terminates for
\* every instance, whatever the demands are relative to the capacity: it
\* eventually routes every customer and holds pop_size solutions.
C16_GreedyTerminates == <>(Len(population) = PopSize)

----------------------------------------------------------------------------
(* Engine A on an instance whose two objectives pull apart: customers 2    *)
(* and 3 routed together give the shortest longest route (32, 16), the     *)
(* customers 3 and 4 (or 2 and 4) together the shortest total (28, 18).    *)
(* The single-customer instance is kept beside it.                         *)

TradeoffCoords(c) ==
    CASE c = 2 -> <<4, -3>>
      [] c = 3 -> <<4, 3>>
      [] OTHER -> <<8, 0>>

TradeoffInstance ==
    [capacity  |-> 2,
     depot     |-> <<0, 0>>,
     customers |-> [c \in CustomerIds(3) |->
                       [coords |-> TradeoffCoords(c), demand |-> 1]]]

InitElitism ==
    /\ pc = "init"
    /\ instance \in {TradeoffInstance, CVRPInstance(1, UnitDemand(1), 1)}
    /\ heap = <<>> /\ population = <<>> /\ offspring = <<>> /\ fronts = <<>>
    /\ gen = 0
    /\ unvisited = DOMAIN instance.customers
    /\ routes = <<>> /\ current = <<0>> /\ load = 0
    /\ tour = <<>> /\ parent2 = <<>> /\ child = <<>>
    /\ order1 = <<>> /\ result = <<>> /\ err = "none"
    /\ archive = <<>> /\ twin = NoTwin

SpecElitism == InitElitism /\ [][Next]_vars

\* The least total_distance among the objects ids of the heap h.
MinTotalDistance(h, ids) == SetMin({h[id].total_distance : id \in ids})

\* The members of the merged population, as the fronts partition it.
MergedMembers(frs) == UNION {Range(frs[k]) : k \in DOMAIN frs}

\* C17: at the end of every generation of Engine A the least
\* total_distance of the next population equals the least total_distance
\* of the merged parents and offspring, so the best total_distance held
\* never increases from one generation to the next.
C17_BestDistanceKept ==
    (pc \in {"vary", "final"} /\ gen >= 1 /\ fronts # <<>>) =>
        MinTotalDistance(heap, Range(population))
            = MinTotalDistance(heap, MergedMembers(fronts))

====
